---- MODULE Spec2Model ----
(***************************************************************************)
(* Model of the batch renderer src/o3d_batch.py: main() as a state machine *)
(* over the file system it reads and writes (input listing, output images, *)
(* resume file, empty-frame log) and the render backend it drives          *)
(* (geometry handle, view control, background colour, settle ticks).       *)
(* File ids are the 0-based positions in the sorted input listing.         *)
(***************************************************************************)
EXTENDS Integers, Sequences, FiniteSets, TLC

\* ------------------------------------------------------------------ bounds
NumFiles == 2          \* largest number of input frames matched by the glob
MaxLogLines == 3       \* main() is run again while a line per frame still fits the log
NumPixels == 2         \* pixels of the canvas
MaxFaults == 1         \* swallowed write failures (resume file, empty-frame log)
MaxBright == 3         \* largest brightness factor

\* ------------------------------------------------------- program constants
SettleDepth == 6       \* _capture_rgb_depth(vis, settle_frames=6)
SettleRetry == 20      \* _capture_rgb_depth(vis, settle_frames=20)
SettleChroma == 10     \* _chroma_key_alpha(vis, opt, settle_frames=10)
SettleRestore == 2     \* _pump(vis, 2) after the background is restored
WarmupTicks == 20      \* _pump(vis, 20) after add_geometry
LockTicks == 10        \* _pump(vis, 10) after the camera is applied
ChromaTol == 0         \* CFG["chroma_tol"]
ColorMax == 2          \* float colour 1.0 on the model's integer scale
ByteMax == 255         \* np.clip(..., 0, 255), uint8
BrightDen == 4         \* CFG["brightness"] is counted in quarters

VARIABLES
  nFiles,        \* number of files the glob matches
  cloudEmpty,    \* file id -> the point cloud read from it is empty
  outExists,     \* file id -> <stem>.png exists in out_dir
  writeCount,    \* file id -> images saved to its output path, all runs
  emptyLog,      \* lines of _empty_frames.txt
  resumeFile,    \* [exists, readable, text] of CFG["resume_file"]
  cfg,           \* [use_resume, max_files, chroma_key_fallback]
  faults,        \* swallowed write failures so far
  pc,            \* position in main()
  abort,         \* why the run ended before Done ("" while it has not)
  base_params,   \* camera parameters returned by _load_view()
  loaded_params, \* the value _load_view() returned, never assigned again
  start,         \* start index
  files,         \* the iterated list: file ids after offset and truncation
  k,             \* enumerate() counter of the frame loop
  pcd_draw,      \* [attached, content, adds, removes, resets] of the handle
  ctr,           \* camera the view control currently holds
  bg,            \* opt.background_color
  bg_orig,       \* bg_orig saved by _chroma_key_alpha
  ticks,         \* backend ticks since this iteration last changed geometry or background
  rgb_key,       \* colour buffer captured over the key background
  alpha,         \* alpha mask of the current frame
  frameOps,      \* operations of the current loop iteration, in order
  existed,       \* the current frame's output existed when it was reached
  lastIdx,       \* index of the last frame this run finished (-1: none)
  lastWrite,     \* last value this run passed to _write_resume (-1: none)
  seedReads,     \* file ids the seed loop read in this run
  written,       \* file ids whose image this run saved
  outAtStart,    \* outExists when this run started
  logAtStart,    \* emptyLog when this run started
  resumeAtStart, \* resumeFile when this run started
  calc,          \* a pixel function applied on its own: its inputs and result
  unlogged       \* file ids whose empty-frame line could not be written, all runs

vars == <<nFiles, cloudEmpty, outExists, writeCount, emptyLog, resumeFile, cfg,
          faults, pc, abort, base_params, loaded_params, start, files, k,
          pcd_draw, ctr, bg, bg_orig, ticks, rgb_key, alpha, frameOps,
          existed,
          lastIdx, lastWrite, seedReads, written, outAtStart, logAtStart, resumeAtStart,
          calc, unlogged>>

envVars == <<nFiles, cloudEmpty>>
runVars == <<outAtStart, logAtStart, resumeAtStart>>

\* ------------------------------------------------------------- pure helpers
Ids(n) == 0 .. (n - 1)

Min(a, b) == IF a < b THEN a ELSE b

\* sorted(in_dir.glob(...)): the listing in lexical order, as file ids
SortedListing(n) == [i \in 1 .. n |-> i - 1]

\* mutant: an offset past the end keeps the last entry
SliceFrom_clamp(s, a) == IF a >= Len(s) THEN SubSeq(s, Len(s), Len(s)) ELSE SubSeq(s, a + 1, Len(s))

\* Python s[a:] for a >= 0
SliceFrom(s, a) == IF a >= Len(s) THEN <<>> ELSE SubSeq(s, a + 1, Len(s))

\* Python s[:m] for m > 0
SliceTo(s, m) == IF m >= Len(s) THEN s ELSE SubSeq(s, 1, m)

Digits == <<"0", "1", "2", "3", "4", "5", "6", "7", "8", "9">>

IsDigit(c) == \E d \in 1 .. 10 : Digits[d] = c

DigitVal(c) == (CHOOSE d \in 1 .. 10 : Digits[d] = c) - 1

IsSpace(c) == c \in {" ", "\n", "\t"}

\* str(next_index) for next_index >= 0
RECURSIVE Str(_)
Str(n) == IF n < 10 THEN <<Digits[n + 1]>>
          ELSE Str(n \div 10) \o <<Digits[(n % 10) + 1]>>

\* str.strip()
RECURSIVE Strip(_)
Strip(t) == IF t = <<>> THEN t
            ELSE IF IsSpace(Head(t)) THEN Strip(Tail(t))
            ELSE IF IsSpace(t[Len(t)]) THEN Strip(SubSeq(t, 1, Len(t) - 1))
            ELSE t

RECURSIVE DigitsVal(_, _)
DigitsVal(t, acc) == IF t = <<>> THEN acc
                     ELSE DigitsVal(Tail(t), 10 * acc + DigitVal(Head(t)))

None == [some |-> FALSE, val |-> 0]
Some(v) == [some |-> TRUE, val |-> v]

\* int(text.strip()): None stands for the ValueError
ParseInt(text) ==
  LET t == Strip(text)
      signed == t # <<>> /\ Head(t) \in {"-", "+"}
      body == IF signed THEN Tail(t) ELSE t
  IN  IF body # <<>> /\ \A i \in 1 .. Len(body) : IsDigit(body[i])
      THEN Some(IF signed /\ Head(t) = "-" THEN 0 - DigitsVal(body, 0)
                ELSE DigitsVal(body, 0))
      ELSE None

_read_resume(f) ==
  IF ~f.exists THEN None
  ELSE IF ~f.readable THEN None
  ELSE ParseInt(f.text)

\* mutant: the index written is one too far
_write_resume_ahead(f, next_index, outcome) ==
  [f EXCEPT !.exists = TRUE, !.text = Str(next_index + 1)]

\* The file after _write_resume(next_index); the exception a failed write
\* raises is swallowed. "ok": written; "unchanged": the open failed;
\* "truncated": opened for writing, the write failed.
_write_resume(f, next_index, outcome) ==
  CASE outcome = "ok" -> [f EXCEPT !.exists = TRUE, !.text = Str(next_index)]
    [] outcome = "unchanged" -> f
    [] OTHER -> [f EXCEPT !.exists = TRUE, !.text = <<>>]

WriteOutcomes == {"ok", "unchanged", "truncated"}

\* mutant: the resume file is used whether or not resume is enabled
StartIndex_always(c, f) ==
  LET r == _read_resume(f)
  IN  IF r.some /\ r.val >= 0 THEN r.val ELSE 0

\* start index of main()
StartIndex(c, f) ==
  LET r == _read_resume(f)
  IN  IF c.use_resume /\ r.some /\ r.val >= 0 THEN r.val ELSE 0

\* mutant: max_files is ignored
IteratedFiles_notrunc(c, n, st) == SliceFrom(SortedListing(n), st)

\* the iterated list of main()
IteratedFiles(c, n, st) ==
  LET rest == SliceFrom(SortedListing(n), st)
  IN  IF c.max_files > 0 THEN SliceTo(rest, c.max_files) ELSE rest

\* seed loop: position in fs of the first file with a non-empty cloud, 0 if none
SeedPos(fs, empties) ==
  IF \E i \in 1 .. Len(fs) : ~empties[fs[i]]
  THEN CHOOSE i \in 1 .. Len(fs) :
         ~empties[fs[i]] /\ \A j \in 1 .. (i - 1) : empties[fs[j]]
  ELSE 0

\* mutant: the backend is not ticked
_pump_none(t, n) == t

\* _pump(vis, n): n ticks of the backend
_pump(t, n) == t + n

Pixels == 1 .. NumPixels

MaskMax(m) == IF \E p \in Pixels : m[p] = 255 THEN 255 ELSE 0

ZeroMask == [p \in Pixels |-> 0]

\* alpha = np.where(dep > 0, 255, 0)
DepthAlpha(dep) == [p \in Pixels |-> IF dep[p] > 0 THEN 255 ELSE 0]

DepthBuffers == [Pixels -> {0, 1}]

Black == <<0, 0, 0>>
Key == <<ColorMax, 0, ColorMax>>      \* CFG["chroma_key_rgb"], magenta
NearKey == <<ColorMax, 0, ColorMax - 1>>
Colors == {Black, Key, NearKey}

Abs(x) == IF x < 0 THEN 0 - x ELSE x

Max3(a, b, c) == IF a >= b /\ a >= c THEN a ELSE IF b >= c THEN b ELSE c

\* diff = np.abs(rgb_key - key).max(axis=2) of one pixel
KeyDiff(px, key) == Max3(Abs(px[1] - key[1]), Abs(px[2] - key[2]), Abs(px[3] - key[3]))

\* mutant: the comparison is not strict
ChromaAlpha_ge(rgb, key, tol) ==
  [p \in Pixels |-> IF KeyDiff(rgb[p], key) >= tol THEN 255 ELSE 0]

\* mask = diff > chroma_tol; alpha = mask * 255
ChromaAlpha(rgb, key, tol) ==
  [p \in Pixels |-> IF KeyDiff(rgb[p], key) > tol THEN 255 ELSE 0]

ColorBuffers == [Pixels -> Colors]
NoBuffer == [p \in Pixels |-> Black]

Cameras == {[intrinsic |-> 1, extrinsic |-> 1]}
Drifted == [intrinsic |-> 0, extrinsic |-> 0]
NoCamera == [intrinsic |-> 0, extrinsic |-> 9]

\* no pixel function is being applied on its own
CalcIdle == [fn |-> "none"]

NoHandle == [attached |-> FALSE, content |-> -1, adds |-> 0, removes |-> 0, resets |-> 0]

LoopPcs == {"loop", "read", "update", "camera", "depth", "retry", "chroma",
            "chroma_cap", "chroma_restore", "check", "save", "resume_w"}
EndPcs == {"done", "fatal", "crashed", "killed"}

\* ---------------------------------------------------------------- inputs
ResumeTexts(n) ==
  {<<"x">>, <<"-", "1">>, <<" ", "1", "\n">>} \cup {Str(i) : i \in 2 .. (n + 1)}

ResumeFiles(n) ==
  {[exists |-> FALSE, readable |-> TRUE, text |-> <<>>],
   [exists |-> TRUE, readable |-> FALSE, text |-> Str(1)]}
  \cup {[exists |-> TRUE, readable |-> TRUE, text |-> t] : t \in ResumeTexts(n)}

Configs ==
  [use_resume : BOOLEAN, max_files : {0, NumFiles - 1}, chroma_key_fallback : BOOLEAN]

\* state of a run before main() has executed anything
FreshRun ==
  /\ pc = "main"
  /\ abort = ""
  /\ base_params = NoCamera
  /\ loaded_params = NoCamera
  /\ start = 0
  /\ files = <<>>
  /\ k = 0
  /\ pcd_draw = NoHandle
  /\ ctr = NoCamera
  /\ bg = Black
  /\ bg_orig = Black
  /\ ticks = 0
  /\ rgb_key = NoBuffer
  /\ alpha = ZeroMask
  /\ frameOps = <<>>
  /\ existed = FALSE
  /\ lastIdx = -1
  /\ lastWrite = -1
  /\ seedReads = {}
  /\ written = {}

Init ==
  /\ nFiles \in 0 .. NumFiles
  /\ cloudEmpty \in [Ids(nFiles) -> BOOLEAN]
  /\ outExists \in [Ids(nFiles) -> BOOLEAN]
  /\ writeCount = [i \in Ids(nFiles) |-> 0]
  /\ emptyLog = <<>>
  /\ resumeFile \in ResumeFiles(nFiles)
  /\ cfg \in Configs
  /\ faults = 0
  /\ outAtStart = outExists
  /\ logAtStart = emptyLog
  /\ resumeAtStart = resumeFile
  /\ calc = CalcIdle
  /\ unlogged = {}
  /\ FreshRun

fsVars == <<outExists, writeCount, emptyLog, resumeFile, faults>>
camVars == <<base_params, loaded_params, ctr>>
listVars == <<start, files>>
surfVars == <<pcd_draw, bg, bg_orig>>
frameVars == <<rgb_key, alpha, frameOps, existed>>
markVars == <<lastIdx, lastWrite>>

\* the frame of the current iteration
ply == files[k + 1]

\* mutant: the resume offset is left out of the index
idx_k == k

idx == start + k

\* ------------------------------------------------------------ main(): setup
\* files = sorted(glob); no file is fatal
ListFiles ==
  /\ pc = "main"
  /\ IF nFiles = 0
     THEN pc' = "fatal" /\ abort' = "no_files"
     ELSE pc' = "load_view" /\ abort' = abort
  /\ UNCHANGED <<calc, unlogged, envVars, runVars, fsVars, cfg, camVars, listVars, k, surfVars,
                 ticks, frameVars, markVars, seedReads, written>>

\* base_params, ... = _load_view(); a missing descriptor is fatal
LoadView ==
  /\ pc = "load_view"
  /\ \E viewExists \in BOOLEAN, params \in Cameras :
       IF ~viewExists
       THEN /\ pc' = "fatal" /\ abort' = "no_view"
            /\ UNCHANGED <<base_params, loaded_params>>
       ELSE /\ pc' = "resume" /\ abort' = abort
            /\ base_params' = params
            /\ loaded_params' = params
  /\ UNCHANGED <<calc, unlogged, envVars, runVars, fsVars, cfg, ctr, listVars, k, surfVars,
                 ticks, frameVars, markVars, seedReads, written>>

\* start index, offset and truncation of the list
SelectFiles ==
  /\ pc = "resume"
  /\ start' = StartIndex(cfg, resumeFile)
  /\ files' = IteratedFiles(cfg, nFiles, start')
  /\ pc' = "window"
  /\ UNCHANGED <<calc, unlogged, envVars, runVars, fsVars, cfg, abort, camVars, k, surfVars,
                 ticks, frameVars, markVars, seedReads, written>>

\* create the window, set the render options, create the empty handle
CreateWindow ==
  /\ pc = "window"
  /\ bg' = Black
  /\ pcd_draw' = NoHandle
  /\ pc' = "seed"
  /\ UNCHANGED <<calc, unlogged, envVars, runVars, fsVars, cfg, abort, camVars, listVars, k,
                 bg_orig, ticks, frameVars, markVars, seedReads, written>>

\* seed loop: the first non-empty cloud of the list fills the handle
SeedLoop ==
  /\ pc = "seed"
  /\ LET s == SeedPos(files, cloudEmpty)
     IN  /\ seedReads' = {files[i] : i \in 1 .. (IF s = 0 THEN Len(files) ELSE s)}
         /\ IF s = 0
            THEN /\ pc' = "fatal" /\ abort' = "all_empty"
                 /\ UNCHANGED pcd_draw
            ELSE /\ pc' = "attach" /\ abort' = abort
                 /\ pcd_draw' = [pcd_draw EXCEPT !.content = files[s]]
  /\ UNCHANGED <<calc, unlogged, envVars, runVars, fsVars, cfg, camVars, listVars, k, bg, bg_orig,
                 ticks, frameVars, markVars, written>>

\* vis.add_geometry(pcd_draw, reset_bounding_box=True), warm-up, camera lock
AttachGeometry ==
  /\ pc = "attach"
  /\ pcd_draw' = [pcd_draw EXCEPT !.attached = TRUE, !.adds = @ + 1, !.resets = @ + 1]
  /\ ctr' = base_params
  /\ ticks' = _pump(_pump(0, WarmupTicks), LockTicks)
  /\ pc' = "loop"
  /\ UNCHANGED <<calc, unlogged, envVars, runVars, fsVars, cfg, abort, base_params, loaded_params,
                 listVars, k, bg, bg_orig, frameVars, markVars, seedReads, written>>

\* ------------------------------------------------------- main(): frame loop
Fault(outcome) == IF outcome = "ok" THEN 0 ELSE 1

\* mutant: the existence test is lost
OutputExists_never(f) == FALSE

\* out_path.exists()
OutputExists(f) == outExists[f]

\* mutant: the emptiness test is lost
CloudIsEmpty_never(f) == FALSE

\* pcd.is_empty()
CloudIsEmpty(f) == cloudEmpty[f]

\* mutant: the geometry is cleared and added again for every frame
ReplaceContents_readd(h, f) ==
  [h EXCEPT !.content = f, !.removes = @ + 1, !.adds = @ + 1, !.resets = @ + 1]

\* pcd_draw.points = pcd.points; pcd_draw.colors = pcd.colors; update_geometry
ReplaceContents(h, f) == [h EXCEPT !.content = f]

\* mutant: the view control's camera is read back into base_params
ParamsAfterApply_view(p, c) == c

\* base_params after convert_from_pinhole_camera_parameters(base_params):
\* the call reads the parameters and writes the view control only
ParamsAfterApply(p, c) == p

\* mutant: the call leaves the view control as it is
ViewAfterApply_skip(c, p) == c

\* the view control's camera after convert_from_pinhole_camera_parameters(p)
ViewAfterApply(c, p) == p

\* mutant: the retry never runs
NeedsRetry_never(a) == FALSE

\* if alpha.max() == 0: the retry runs
NeedsRetry(a) == MaskMax(a) = 0

\* mutant: the fallback runs whatever the depth mask holds
NeedsChroma_always(a, c) == c.chroma_key_fallback

\* if alpha.max() == 0 and CFG["chroma_key_fallback"]: the fallback runs
NeedsChroma(a, c) == MaskMax(a) = 0 /\ c.chroma_key_fallback

\* mutant: the emptiness test is lost
IsEmptyMask_never(a) == FALSE

\* if alpha.max() == 0: the frame is Empty
IsEmptyMask(a) == MaskMax(a) = 0

\* mutant: the exception aborts the run
AfterChromaRaise_fatal == "fatal"

\* mutant: the exception leaves main
AfterChromaRaise_propagate == "crashed"

\* except Exception: alpha = alpha; main goes on to the emptiness test
AfterChromaRaise == "check"

\* mutant: the log is opened for writing, not appending
LogAppend_overwrite(log, line) == <<line>>

\* with empty_log.open("a") as f: f.write(msg)
LogAppend(log, line) == Append(log, line)

\* _write_resume(idx + 1) followed by the next iteration; logFault counts a
\* failed log write of the same step. The buffers of the
\* iteration are dead from here on (the next one assigns them before any
\* use), and ticks counts within one iteration.
Advance(outcome, logFault) ==
  /\ faults + logFault + Fault(outcome) <= MaxFaults
  /\ faults' = faults + logFault + Fault(outcome)
  /\ resumeFile' = _write_resume(resumeFile, idx + 1, outcome)
  /\ lastWrite' = idx + 1
  /\ lastIdx' = ply
  /\ k' = k + 1
  /\ pc' = "loop"
  /\ rgb_key' = NoBuffer
  /\ alpha' = ZeroMask
  /\ ticks' = 0

\* what an iteration that goes on leaves alone
Stay == UNCHANGED <<resumeFile, faults, lastWrite, lastIdx, k>>

\* loop head: an existing output skips the frame
ReachFrame ==
  /\ pc = "loop"
  /\ k < Len(files)
  /\ existed' = OutputExists(ply)
  /\ IF OutputExists(ply)
     THEN /\ \E o \in WriteOutcomes : Advance(o, 0)
          /\ frameOps' = <<"resume">>
     ELSE /\ pc' = "read"
          /\ frameOps' = <<>>
          /\ Stay
          /\ UNCHANGED <<rgb_key, alpha, ticks>>
  /\ UNCHANGED <<calc, unlogged, envVars, runVars, outExists, writeCount, emptyLog, cfg, abort,
                 camVars, listVars, surfVars, seedReads, written>>

\* read the cloud: an empty one skips the frame
ReadCloud ==
  /\ pc = "read"
  /\ IF CloudIsEmpty(ply)
     THEN /\ \E o \in WriteOutcomes : Advance(o, 0)
          /\ frameOps' = frameOps \o <<"read", "resume">>
     ELSE /\ pc' = "update"
          /\ frameOps' = Append(frameOps, "read")
          /\ Stay
          /\ UNCHANGED <<rgb_key, alpha, ticks>>
  /\ UNCHANGED <<calc, unlogged, envVars, runVars, outExists, writeCount, emptyLog, cfg, abort,
                 camVars, listVars, surfVars, existed, seedReads, written>>

\* pcd_draw.points/colors replaced, vis.update_geometry(pcd_draw); the
\* backend may readjust the view when the content changes
UpdateGeometry ==
  /\ pc = "update"
  /\ pcd_draw' = ReplaceContents(pcd_draw, ply)
  /\ ticks' = 0
  /\ ctr' \in {ctr, Drifted}
  /\ frameOps' = Append(frameOps, "update")
  /\ pc' = "camera"
  /\ Stay
  /\ UNCHANGED <<calc, unlogged, envVars, runVars, outExists, writeCount, emptyLog, cfg, abort,
                 base_params, loaded_params, listVars, bg, bg_orig, rgb_key,
                 alpha, existed, seedReads, written>>

\* ctr.convert_from_pinhole_camera_parameters(base_params)
ReapplyCamera ==
  /\ pc = "camera"
  /\ ctr' = ViewAfterApply(ctr, base_params)
  /\ base_params' = ParamsAfterApply(base_params, ctr)
  /\ frameOps' = Append(frameOps, "camera")
  /\ pc' = "depth"
  /\ Stay
  /\ UNCHANGED <<calc, unlogged, envVars, runVars, outExists, writeCount, emptyLog, cfg, abort,
                 loaded_params, listVars, surfVars, ticks, rgb_key,
                 alpha, existed, seedReads, written>>

\* _capture_rgb_depth(vis, settle_frames=6)
DepthAttempt ==
  /\ pc = "depth"
  /\ ticks' = _pump(ticks, SettleDepth)
  /\ \E dep \in DepthBuffers : alpha' = DepthAlpha(dep)
  /\ frameOps' = Append(frameOps, "depth")
  /\ pc' = "retry"
  /\ Stay
  /\ UNCHANGED <<calc, unlogged, envVars, runVars, outExists, writeCount, emptyLog, cfg, abort,
                 camVars, listVars, surfVars, rgb_key, existed, seedReads, written>>

\* if alpha.max() == 0: _capture_rgb_depth(vis, settle_frames=20)
DepthRetry ==
  /\ pc = "retry"
  /\ IF NeedsRetry(alpha)
     THEN /\ ticks' = _pump(ticks, SettleRetry)
          /\ \E dep \in DepthBuffers : alpha' = DepthAlpha(dep)
          /\ frameOps' = Append(frameOps, "retry")
     ELSE UNCHANGED <<ticks, alpha, frameOps>>
  /\ pc' = "chroma"
  /\ Stay
  /\ UNCHANGED <<calc, unlogged, envVars, runVars, outExists, writeCount, emptyLog, cfg, abort,
                 camVars, listVars, surfVars, rgb_key, existed, seedReads, written>>

\* if alpha.max() == 0 and chroma_key_fallback: enter _chroma_key_alpha,
\* which saves the background and sets the key colour
ChromaFallback ==
  /\ pc = "chroma"
  /\ IF NeedsChroma(alpha, cfg)
     THEN /\ bg_orig' = bg
          /\ bg' = Key
          /\ ticks' = 0
          /\ frameOps' = Append(frameOps, "chroma")
          /\ pc' = "chroma_cap"
     ELSE /\ pc' = "check"
          /\ UNCHANGED <<bg_orig, bg, ticks, frameOps>>
  /\ Stay
  /\ UNCHANGED <<calc, unlogged, envVars, runVars, outExists, writeCount, emptyLog, cfg, abort,
                 camVars, listVars, pcd_draw, rgb_key, alpha, existed, seedReads, written>>

\* _pump and capture_screen_float_buffer over the key colour; an exception
\* leaves _chroma_key_alpha before the background is restored and is
\* swallowed by main, alpha keeps its zeros
ChromaCapture ==
  /\ pc = "chroma_cap"
  /\ ticks' = _pump(ticks, SettleChroma)
  /\ \E raised \in BOOLEAN, rgb \in ColorBuffers :
       IF raised
       THEN /\ pc' = AfterChromaRaise
            /\ frameOps' = Append(frameOps, "chroma_raise")
            /\ bg_orig' = Black
            /\ UNCHANGED rgb_key
       ELSE /\ pc' = "chroma_restore"
            /\ frameOps' = Append(frameOps, "chroma_capture")
            /\ rgb_key' = rgb
            /\ UNCHANGED bg_orig
  /\ Stay
  /\ UNCHANGED <<calc, unlogged, envVars, runVars, outExists, writeCount, emptyLog, cfg, abort,
                 camVars, listVars, pcd_draw, bg, alpha, existed, seedReads, written>>

\* restore the background, _pump(vis, 2), key the capture out
ChromaRestore ==
  /\ pc = "chroma_restore"
  /\ bg' = bg_orig
  /\ bg_orig' = Black
  /\ ticks' = _pump(0, SettleRestore)
  /\ alpha' = ChromaAlpha(rgb_key, Key, ChromaTol)
  /\ rgb_key' = NoBuffer
  /\ frameOps' = Append(frameOps, "chroma_restore")
  /\ pc' = "check"
  /\ Stay
  /\ UNCHANGED <<calc, unlogged, envVars, runVars, outExists, writeCount, emptyLog, cfg, abort,
                 camVars, listVars, pcd_draw, existed, seedReads, written>>

\* the line of the empty-frame log
EmptyLine(i, f) == [idx |-> i, file |-> f]

\* if alpha.max() == 0: log (best effort), advance the resume, continue
CheckEmpty ==
  /\ pc = "check"
  /\ IF IsEmptyMask(alpha)
     THEN \E logged \in BOOLEAN, o \in WriteOutcomes :
            /\ emptyLog' = IF logged THEN LogAppend(emptyLog, EmptyLine(idx, ply))
                           ELSE emptyLog
            /\ unlogged' = IF logged THEN unlogged ELSE unlogged \cup {ply}
            /\ Advance(o, IF logged THEN 0 ELSE 1)
            /\ frameOps' = frameOps \o <<"empty", "resume">>
     ELSE /\ pc' = "save"
          /\ Stay
          /\ UNCHANGED <<emptyLog, unlogged, frameOps, rgb_key, alpha, ticks>>
  /\ UNCHANGED <<calc, envVars, runVars, outExists, writeCount, cfg, abort, camVars,
                 listVars, surfVars, existed, seedReads, written>>

\* the process is gone: its locals and the backend's state go with it
ResetLocals ==
  /\ base_params' = NoCamera
  /\ loaded_params' = NoCamera
  /\ start' = 0
  /\ files' = <<>>
  /\ k' = 0
  /\ pcd_draw' = NoHandle
  /\ ctr' = NoCamera
  /\ bg' = Black
  /\ bg_orig' = Black
  /\ ticks' = 0
  /\ rgb_key' = NoBuffer
  /\ alpha' = ZeroMask
  /\ frameOps' = <<>>
  /\ existed' = FALSE
  /\ lastIdx' = -1
  /\ lastWrite' = -1
  /\ seedReads' = {}
  /\ written' = {}

\* Image.fromarray(rgba).save(out_path); a failure propagates out of main
\* and may leave a partial file behind
SaveImage ==
  /\ pc = "save"
  /\ \E saved \in BOOLEAN, partial \in BOOLEAN :
       IF saved
       THEN /\ outExists' = [outExists EXCEPT ![ply] = TRUE]
            /\ writeCount' = [writeCount EXCEPT ![ply] = @ + 1]
            /\ frameOps' = Append(frameOps, "save")
            /\ pc' = "resume_w" /\ abort' = abort
            /\ Stay
            /\ written' = written \cup {ply}
            /\ UNCHANGED <<camVars, listVars, surfVars, ticks, rgb_key, alpha,
                           existed, seedReads>>
       ELSE /\ outExists' = [outExists EXCEPT ![ply] = partial]
            /\ pc' = "crashed" /\ abort' = "save_failed"
            /\ ResetLocals
            /\ UNCHANGED <<writeCount, resumeFile, faults>>
  /\ UNCHANGED <<calc, unlogged, envVars, runVars, emptyLog, cfg>>

\* _write_resume(idx + 1) after the image is saved
AdvanceSaved ==
  /\ pc = "resume_w"
  /\ \E o \in WriteOutcomes : Advance(o, 0)
  /\ frameOps' = Append(frameOps, "resume")
  /\ UNCHANGED <<calc, unlogged, envVars, runVars, outExists, writeCount, emptyLog, cfg, abort,
                 camVars, listVars, surfVars, existed, seedReads, written>>

\* the list is exhausted: vis.destroy_window(), "Done."
Done ==
  /\ pc = "loop"
  /\ k = Len(files)
  /\ pc' = "done"
  /\ UNCHANGED <<calc, unlogged, envVars, runVars, fsVars, cfg, abort, camVars, listVars, k,
                 surfVars, ticks, frameVars, markVars, seedReads, written>>

\* the process is terminated from outside during the frame loop
Kill ==
  /\ pc \in LoopPcs
  /\ pc' = "killed"
  /\ abort' = "killed"
  /\ ResetLocals
  /\ UNCHANGED <<calc, unlogged, envVars, runVars, fsVars, cfg>>

\* main() is run again over the same directories
Restart ==
  /\ pc \in EndPcs
  /\ Len(emptyLog) + nFiles <= MaxLogLines
  /\ \E u \in BOOLEAN : cfg' = [cfg EXCEPT !.use_resume = u]
  /\ outAtStart' = outExists
  /\ logAtStart' = emptyLog
  /\ resumeAtStart' = resumeFile
  /\ pc' = "main"
  /\ abort' = ""
  /\ ResetLocals
  /\ UNCHANGED <<calc, unlogged, envVars, fsVars>>

Next ==
  \/ ListFiles
  \/ LoadView
  \/ SelectFiles
  \/ CreateWindow
  \/ SeedLoop
  \/ AttachGeometry
  \/ ReachFrame
  \/ ReadCloud
  \/ UpdateGeometry
  \/ ReapplyCamera
  \/ DepthAttempt
  \/ DepthRetry
  \/ ChromaFallback
  \/ ChromaCapture
  \/ ChromaRestore
  \/ CheckEmpty
  \/ SaveImage
  \/ AdvanceSaved
  \/ Done
  \/ Kill

\* one run of main() over any state of the directories
Spec == Init /\ [][Next]_vars

\* a first run, which finds no resume file, and the runs that follow it
InitFirst == Init /\ ~resumeFile.exists

NextRuns == Next \/ Restart

SpecRuns == InitFirst /\ [][NextRuns]_vars

\* main() left to run: nothing terminates the process from outside, and the
\* interpreter always executes the next statement (every loop of main and of
\* _pump is a for loop over a finite range)
NextLive ==
  \/ ListFiles
  \/ LoadView
  \/ SelectFiles
  \/ CreateWindow
  \/ SeedLoop
  \/ AttachGeometry
  \/ ReachFrame
  \/ ReadCloud
  \/ UpdateGeometry
  \/ ReapplyCamera
  \/ DepthAttempt
  \/ DepthRetry
  \/ ChromaFallback
  \/ ChromaCapture
  \/ ChromaRestore
  \/ CheckEmpty
  \/ SaveImage
  \/ AdvanceSaved
  \/ Done

SpecLive == Init /\ [][NextLive]_vars /\ WF_vars(NextLive)

\* ------------------------------------------------- pixel functions alone
\* main() has not started and finds nothing to do
NoRun ==
  /\ nFiles = 0
  /\ cloudEmpty = [i \in Ids(0) |-> FALSE]
  /\ outExists = [i \in Ids(0) |-> FALSE]
  /\ writeCount = [i \in Ids(0) |-> 0]
  /\ emptyLog = <<>>
  /\ resumeFile = [exists |-> FALSE, readable |-> TRUE, text |-> <<>>]
  /\ cfg = [use_resume |-> FALSE, max_files |-> 0, chroma_key_fallback |-> TRUE]
  /\ faults = 0
  /\ outAtStart = outExists
  /\ logAtStart = emptyLog
  /\ resumeAtStart = resumeFile
  /\ unlogged = {}
  /\ FreshRun

mainVars == <<nFiles, cloudEmpty, outExists, writeCount, emptyLog, resumeFile, cfg,
              faults, pc, abort, base_params, loaded_params, start, files, k,
              pcd_draw, ctr, bg, bg_orig, ticks, rgb_key, alpha, frameOps,
              existed, lastIdx, lastWrite, seedReads, written, outAtStart,
              logAtStart, resumeAtStart, unlogged>>

\* colours a captured pixel can have on the model's scale
PixelColors == [1 .. 3 -> 0 .. ColorMax]

\* key colours: CFG["chroma_key_rgb"] and one other setting
KeyColors == {Key, Black}

\* settings of CFG["chroma_tol"]
Tolerances == 0 .. ColorMax

InitChroma ==
  /\ NoRun
  /\ calc \in [fn : {"chroma"}, rgb : [Pixels -> PixelColors], key : KeyColors,
               tol : Tolerances, done : {FALSE}, out : {ZeroMask}]

\* lines 124-127 of _chroma_key_alpha on a captured buffer
ApplyChroma ==
  /\ calc.fn = "chroma"
  /\ ~calc.done
  /\ calc' = [calc EXCEPT !.done = TRUE,
                          !.out = ChromaAlpha(calc.rgb, calc.key, calc.tol)]
  /\ UNCHANGED mainVars

NextChroma == ApplyChroma

SpecChroma == InitChroma /\ [][NextChroma]_vars

\* mutant: the product is not clipped
Clip_none(x, lo, hi) == x

\* np.clip(x, lo, hi)
Clip(x, lo, hi) == IF x < lo THEN lo ELSE IF x > hi THEN hi ELSE x

\* .astype(np.uint8) of the float q / BrightDen: the fraction is dropped and
\* the integer is kept modulo 2^8
AsUint8(q) == (q \div BrightDen) % (ByteMax + 1)

\* lines 270-274 on one channel value v; num / BrightDen is CFG["brightness"]
\* (quarters are exact in float32, so is every product with v <= 255)
Brighten(v, num) ==
  IF num # BrightDen
  THEN AsUint8(Clip(v * num, 0, ByteMax * BrightDen))
  ELSE v

\* settings of CFG["brightness"], in quarters
Brightnesses == (0 - BrightDen) .. (MaxBright * BrightDen)

InitBrightness ==
  /\ NoRun
  /\ calc \in [fn : {"brightness"}, v : 0 .. ByteMax, num : Brightnesses,
               done : {FALSE}, out : {0}]

ApplyBrightness ==
  /\ calc.fn = "brightness"
  /\ ~calc.done
  /\ calc' = [calc EXCEPT !.done = TRUE, !.out = Brighten(calc.v, calc.num)]
  /\ UNCHANGED mainVars

NextBrightness == ApplyBrightness

SpecBrightness == InitBrightness /\ [][NextBrightness]_vars

\* ------------------------------------------------------------------ claims
RunningPcs == LoopPcs \cup {"done"}

Range(q) == {q[i] : i \in 1 .. Len(q)}

\* C1: within one run every frame that finishes is followed by
\* _write_resume(idx + 1), idx being the frame's position in the sorted
\* listing; the values written never decrease, and at every checkpoint the
\* value equals the last processed index + 1 (and is what the file holds
\* unless a write failed).
C1_Checkpoint ==
  pc \in RunningPcs =>
    /\ (k = 0 => lastWrite = -1 /\ lastIdx = -1)
    /\ (k > 0 => /\ lastIdx = files[k]
                 /\ lastIdx = start + k - 1
                 /\ lastWrite = lastIdx + 1
                 /\ (faults = 0 => /\ resumeFile.exists
                                   /\ ParseInt(resumeFile.text) = Some(lastWrite)))

C1_Step ==
  /\ (pc' \in RunningPcs => lastWrite' >= lastWrite)
  /\ (pc' \in RunningPcs /\ k' # k =>
        /\ k' = k + 1
        /\ lastWrite' = files[k + 1] + 1
        /\ lastWrite' > lastWrite)

C1_ResumeMonotone == []C1_Checkpoint /\ [][C1_Step]_vars

C1_Witness ==
  /\ pc = "done" /\ start = 1 /\ k = 1
  /\ lastIdx = 1 /\ lastWrite = 2
  /\ resumeFile.text = <<"2">>

\* C2: an output image that exists when its frame is reached is never
\* overwritten: the iteration reads no cloud, updates no geometry, captures
\* and saves nothing and only advances the resume; so every output path is
\* saved at most once over all runs.
C2_Inv ==
  /\ \A i \in Ids(nFiles) : writeCount[i] <= 1
  /\ (existed => frameOps = <<"resume">>)
  /\ (pc \in (LoopPcs \ {"loop", "resume_w"}) => ~existed /\ ~outExists[ply])

C2_Step ==
  /\ \A i \in Ids(nFiles) : outExists[i] => writeCount'[i] = writeCount[i]
  /\ (pc = "loop" /\ k < Len(files) /\ outExists[files[k + 1]] /\ pc' # "killed" =>
        /\ pc' = "loop" /\ k' = k + 1
        /\ lastWrite' = start + k + 1
        /\ UNCHANGED <<outExists, writeCount, emptyLog, pcd_draw, written>>)

C2_NeverOverwritten == []C2_Inv /\ [][C2_Step]_vars

C2_Witness ==
  /\ pc = "loop" /\ existed
  /\ lastIdx >= 0 /\ writeCount[lastIdx] = 1
  /\ lastIdx \notin written

\* C3: a run with resume disabled over a directory in which every frame's
\* output exists.
AllOutputsAtStart == nFiles > 0 /\ \A i \in Ids(nFiles) : outAtStart[i]

RerunDone == pc = "done" /\ ~cfg.use_resume /\ AllOutputsAtStart

\* C3 as stated: such a run saves no image, logs no line and leaves the
\* resume pointer equal to the number of input files.
C3_Original ==
  RerunDone => written = {} /\ emptyLog = logAtStart /\ lastWrite = nFiles

\* C3 as amended: such a run saves no image and logs no line; when it reaches
\* Done the resume pointer equals the number of frames iterated, which is the
\* number of input files only when max_files does not truncate the list, and
\* when every cloud of the list is empty it aborts at the seed and leaves the
\* resume file as it was.
C3_Amended ==
  /\ (RerunDone =>
        /\ written = {} /\ emptyLog = logAtStart /\ outExists = outAtStart
        /\ lastWrite = Len(files)
        /\ Len(files) = IF cfg.max_files > 0 /\ cfg.max_files < nFiles
                        THEN cfg.max_files ELSE nFiles
        /\ (faults = 0 => ParseInt(resumeFile.text) = Some(Len(files))))
  /\ (pc = "fatal" /\ ~cfg.use_resume /\ AllOutputsAtStart =>
        /\ written = {} /\ emptyLog = logAtStart /\ outExists = outAtStart
        /\ resumeFile = resumeAtStart)

C3_Witness ==
  /\ RerunDone /\ nFiles = 2 /\ cfg.max_files = 0
  /\ \A i \in Ids(nFiles) : writeCount[i] = 1
  /\ lastWrite = 2

\* the extraction stages among the operations of an iteration
Stages(ops) == SelectSeq(ops, LAMBDA o : o \in {"depth", "retry", "chroma"})

EmptyReached == "empty" \in Range(frameOps)

\* C4 as stated: a frame that reaches Empty has passed DepthAttempt,
\* DepthRetry and ChromaFallback, in that order, no stage skipped.
C4_Original ==
  EmptyReached => Stages(frameOps) = <<"depth", "retry", "chroma">>

\* C4 as amended: a frame whose mask is zero after every stage passes
\* DepthAttempt, DepthRetry and, when chroma_key_fallback is enabled,
\* ChromaFallback, in that order, before Empty; with the fallback disabled
\* Empty follows DepthRetry directly. Stages always run in that order.
C4_Amended ==
  /\ Stages(frameOps) \in {<<>>, <<"depth">>, <<"depth", "retry">>,
                           <<"depth", "retry", "chroma">>}
  /\ ((pc = "check" /\ MaskMax(alpha) = 0) \/ EmptyReached =>
        Stages(frameOps) = IF cfg.chroma_key_fallback
                           THEN <<"depth", "retry", "chroma">>
                           ELSE <<"depth", "retry">>)

C4_Witness ==
  /\ pc = "loop" /\ EmptyReached /\ cfg.chroma_key_fallback
  /\ "chroma_restore" \in Range(frameOps)

\* C5: a frame whose mask is zero after the stages gets no image, exactly one
\* log line with its index and file name appended after the existing lines
\* (none if the log write fails), the resume write of idx + 1, and the loop
\* goes on with the next frame.
C5_Step ==
  (pc = "check" /\ MaskMax(alpha) = 0 /\ pc' # "killed") =>
    /\ pc' = "loop" /\ k' = k + 1
    /\ outExists' = outExists /\ writeCount' = writeCount /\ written' = written
    /\ ~outExists'[files[k + 1]]
    /\ \/ emptyLog' = Append(emptyLog, [idx |-> start + k, file |-> files[k + 1]])
       \/ emptyLog' = emptyLog /\ faults' > faults
    /\ lastWrite' = start + k + 1

C5_EmptySkipped == [][C5_Step]_vars

C5_Witness ==
  /\ pc = "loop" /\ k = 2 /\ EmptyReached
  /\ Len(emptyLog) = 2 /\ emptyLog[1] = [idx |-> 0, file |-> 0]
  /\ emptyLog[2] = [idx |-> 1, file |-> 1]
  /\ ~outExists[1] /\ lastWrite = 2

\* C6: an exception of the chroma capture stays inside the frame loop: the
\* frame goes to the emptiness test with a zero mask and ends logged,
\* skipped, without image, with the resume advanced.
C6_ChromaRaiseIsEmpty ==
  "chroma_raise" \in Range(frameOps) =>
    \/ pc = "check" /\ MaskMax(alpha) = 0
    \/ /\ pc \in {"loop", "done"}
       /\ SubSeq(frameOps, Len(frameOps) - 2, Len(frameOps))
            = <<"chroma_raise", "empty", "resume">>
       /\ lastWrite = lastIdx + 1
       /\ lastIdx \notin written /\ ~outExists[lastIdx]
       /\ \/ emptyLog # <<>> /\ emptyLog[Len(emptyLog)] = [idx |-> lastIdx, file |-> lastIdx]
          \/ faults > 0

C6_Witness ==
  /\ pc = "loop" /\ "chroma_raise" \in Range(frameOps)
  /\ emptyLog # <<>> /\ emptyLog[Len(emptyLog)].idx = lastIdx
  /\ lastWrite = lastIdx + 1

\* the start index the resume file of the run's start stands for
C7_Expected ==
  LET f == resumeAtStart
      t == f.text
  IN  IF ~cfg.use_resume \/ ~f.exists \/ ~f.readable THEN 0
      ELSE IF t = <<" ", "1", "\n">> THEN 1
      ELSE IF Len(t) = 1 /\ IsDigit(t[1]) THEN DigitVal(t[1])
      ELSE 0

\* C7: the start index is the persisted value when resume is enabled and the
\* file holds a non-negative integer, 0 otherwise; frames below it are never
\* read, rendered, written or logged, and the list starts at that index.
C7_StartIndex ==
  (pc \in RunningPcs \cup {"window", "seed", "attach"}
     \/ (pc = "fatal" /\ abort = "all_empty")) =>
    /\ start = C7_Expected
    /\ \A i \in seedReads : i >= start
    /\ \A i \in Ids(nFiles) :
         i < start => /\ outExists[i] = outAtStart[i]
                      /\ i \notin written
                      /\ pcd_draw.content # i
    /\ \A j \in 1 .. Len(emptyLog) : j > Len(logAtStart) => emptyLog[j].idx >= start
    /\ (Len(files) > 0 => files[1] = start)
    /\ (pc \in LoopPcs /\ k < Len(files) => files[k + 1] = start + k)

C7_Witness ==
  /\ pc = "done" /\ cfg.use_resume /\ nFiles = 2 /\ start = 1
  /\ written = {1} /\ ~outExists[0] /\ seedReads = {1}

SetupPcs == {"main", "load_view", "resume", "window", "seed", "attach"}

\* C8: the handle is attached, with the bounding-box reset, exactly once per
\* run, at the seed; afterwards nothing is attached, removed or reset and a
\* frame only replaces the handle's contents.
C8_Inv ==
  /\ (pc \in RunningPcs =>
        /\ pcd_draw.attached
        /\ pcd_draw.adds = 1 /\ pcd_draw.resets = 1 /\ pcd_draw.removes = 0)
  /\ (pc \in SetupPcs =>
        /\ ~pcd_draw.attached
        /\ pcd_draw.adds = 0 /\ pcd_draw.resets = 0 /\ pcd_draw.removes = 0)

C8_Step ==
  (pc \in LoopPcs /\ pc' \in RunningPcs) =>
    \/ pcd_draw' = pcd_draw
    \/ pc = "update" /\ pcd_draw' = [pcd_draw EXCEPT !.content = files[k + 1]]

C8_AttachedOnce == []C8_Inv /\ [][C8_Step]_vars

C8_Witness ==
  /\ pc = "done" /\ written = {0, 1}
  /\ pcd_draw.content = 1 /\ pcd_draw.adds = 1

\* C9: the camera parameters loaded at startup are the same after any number
\* of frame iterations; no step of the loop changes them.
C9_Inv ==
  pc \in RunningPcs \cup {"window", "seed", "attach"} =>
    base_params = loaded_params /\ base_params \in Cameras

C9_Step == (pc \in LoopPcs /\ pc' \in RunningPcs) => base_params' = base_params

C9_CameraStable == []C9_Inv /\ [][C9_Step]_vars

C9_Witness ==
  /\ pc = "loop" /\ k = 2 /\ written = {0}
  /\ "chroma_restore" \in Range(frameOps)
  /\ base_params = loaded_params /\ base_params \in Cameras

RenderPcs == {"update", "camera", "depth", "retry", "chroma", "chroma_cap",
              "chroma_restore", "check", "save", "resume_w"}

\* C10: a frame whose cloud is empty is skipped: no geometry update, no
\* capture, no image, no log line, and the resume write of idx + 1.
C10_EmptyCloudSkipped ==
  /\ (pc \in RenderPcs => ~cloudEmpty[ply])
  /\ \A i \in Ids(nFiles) :
       cloudEmpty[i] =>
         /\ i \notin written
         /\ outExists[i] = outAtStart[i]
         /\ (pc \in RunningPcs => pcd_draw.content # i)
         /\ \A j \in 1 .. Len(emptyLog) : j > Len(logAtStart) => emptyLog[j].file # i
  /\ (pc \in {"loop", "done"} /\ frameOps = <<"read", "resume">> =>
        cloudEmpty[lastIdx] /\ lastWrite = lastIdx + 1)

C10_Witness ==
  /\ pc = "loop" /\ frameOps = <<"read", "resume">>
  /\ lastIdx = 1 /\ cloudEmpty[1] /\ lastWrite = 2
  /\ written = {0}

\* C11: in the chroma mask a pixel is foreground (255) if and only if the
\* largest per-channel distance between the pixel and the key colour is
\* strictly greater than the tolerance; a pixel at exactly the tolerance is
\* background (0).
C11_ChromaThreshold ==
  (calc.fn = "chroma" /\ calc.done) =>
    \A p \in Pixels :
      LET d == {Abs(calc.rgb[p][c] - calc.key[c]) : c \in 1 .. 3}
          far == \E x \in d : x > calc.tol
      IN  /\ calc.out[p] \in {0, 255}
          /\ (calc.out[p] = 255 <=> far)
          /\ ((\A x \in d : x <= calc.tol) /\ calc.tol \in d => calc.out[p] = 0)

C11_Witness ==
  /\ calc.fn = "chroma" /\ calc.done
  /\ calc.tol = 1 /\ calc.key = Key
  /\ calc.rgb[1] = NearKey /\ calc.out[1] = 0
  /\ calc.rgb[2] = Black /\ calc.out[2] = 255

\* C12: brightness scaling of an 8-bit value v by b gives the 8-bit value of
\* v*b clamped to 0..255 (its integer part): 255 when v*b is 255 or more
\* (b = 2, v = 200 gives 255), never v*b modulo 256, 0 when v*b is 0 or
\* less, and v itself at b = 1.
C12_BrightnessClamps ==
  (calc.fn = "brightness" /\ calc.done) =>
    LET prod == calc.v * calc.num
        top == ByteMax * BrightDen
    IN  /\ calc.out \in 0 .. ByteMax
        /\ (prod >= top => calc.out = ByteMax)
        /\ (prod <= 0 => calc.out = 0)
        /\ (prod > 0 /\ prod < top =>
              calc.out * BrightDen <= prod /\ prod < (calc.out + 1) * BrightDen)
        /\ (calc.num = BrightDen => calc.out = calc.v)

C12_Witness ==
  /\ calc.fn = "brightness" /\ calc.done
  /\ calc.v = 200 /\ calc.num = 2 * BrightDen /\ calc.out = 255

\* positions of an iteration after the first depth capture
MaskPcs == {"retry", "chroma", "chroma_cap", "chroma_restore", "check", "save",
            "resume_w"}

\* C13, in every state: a stage has run only after the stages before it, and
\* a non-empty mask is never followed by another stage, so the mask that is
\* saved is the one of the last stage that ran.
C13_Inv ==
  /\ (pc \in {"chroma_cap", "chroma_restore"} => MaskMax(alpha) = 0)
  /\ (pc \in {"save", "resume_w"} =>
        /\ MaskMax(alpha) = 255
        /\ Stages(frameOps) \in {<<"depth">>, <<"depth", "retry">>,
                                 <<"depth", "retry", "chroma">>}
        /\ ("chroma" \in Range(frameOps) =>
              frameOps[Len(SelectSeq(frameOps, LAMBDA o : o # "save"))] = "chroma_restore"))

\* C13, in every step: a stage starts only from an all-zero mask, and a
\* non-empty mask is carried unchanged to the save.
C13_Step ==
  /\ (Len(Stages(frameOps')) > Len(Stages(frameOps)) /\ pc \in {"retry", "chroma"} =>
        MaskMax(alpha) = 0)
  /\ (pc \in MaskPcs /\ MaskMax(alpha) = 255 /\ pc' \in MaskPcs =>
        /\ alpha' = alpha
        /\ Stages(frameOps') = Stages(frameOps)
        /\ pc' \in {"chroma", "check", "save", "resume_w"}
        /\ bg' = bg)

C13_FirstNonEmptyMask == []C13_Inv /\ [][C13_Step]_vars

C13_Witness ==
  /\ pc = "save" /\ MaskMax(alpha) = 255
  /\ frameOps = <<"read", "update", "camera", "depth", "retry">>
  /\ cfg.chroma_key_fallback

\* C14 as stated: outside the chroma stage the background is the colour set
\* when the window was created, also after a chroma capture that raised.
C14_BackgroundRestored ==
  pc \in (RunningPcs \ {"chroma_cap", "chroma_restore"}) => bg = Black

\* the operations that read a buffer of the backend
Captures == {"depth", "retry", "chroma_capture"}

Count(ops, o) == Len(SelectSeq(ops, LAMBDA x : x = o))

\* C15, in every state: an iteration that renders starts with the geometry
\* update, then the camera reapply, and only then captures; at every capture
\* position the handle holds the frame's cloud and the view control holds
\* the stored camera.
C15_Inv ==
  /\ (pc \in RenderPcs \ {"update", "camera"} =>
        /\ SubSeq(frameOps, 1, 3) = <<"read", "update", "camera">>
        /\ pcd_draw.content = ply)
  /\ (pc \in {"depth", "retry", "chroma", "chroma_cap"} => ctr = base_params)
  /\ \A i \in 1 .. Len(frameOps) : frameOps[i] \in Captures => i > 3
  /\ Count(frameOps, "update") <= 1 /\ Count(frameOps, "camera") <= 1

\* C15, in every step: a capture is taken of the current frame's cloud under
\* the stored camera, and a geometry update starts an iteration in which
\* nothing has been captured yet, the previous frame being finished.
C15_Step ==
  /\ (Len(frameOps') = Len(frameOps) + 1 /\ frameOps'[Len(frameOps')] \in Captures =>
        /\ ctr = base_params
        /\ pcd_draw.content = files[k + 1]
        /\ Count(frameOps, "camera") = 1)
  /\ (pc = "update" /\ pc' = "camera" =>
        /\ frameOps = <<"read">>
        /\ (k > 0 => lastIdx = files[k])
        /\ pcd_draw'.content = files[k + 1])

C15_UpdateCameraCapture == []C15_Inv /\ [][C15_Step]_vars

C15_Witness ==
  /\ pc = "save" /\ k = 1 /\ written = {0}
  /\ frameOps = <<"read", "update", "camera", "depth">>
  /\ pcd_draw.content = 1 /\ ctr = base_params

\* C16: every capture follows the stage's ticks, counted from the last
\* geometry update or background change: 6 or more at DepthAttempt, 20 more
\* at DepthRetry, 10 at the chroma capture; no capture is taken at 0 ticks.
C16_Step ==
  /\ (pc = "update" /\ pc' = "camera" => ticks' = 0)
  /\ (bg' # bg /\ pc' \in LoopPcs => ticks' <= SettleRestore)
  /\ (pc = "depth" /\ pc' = "retry" =>
        ticks' - ticks = SettleDepth /\ ticks' >= 6)
  /\ (pc = "retry" /\ Len(frameOps') > Len(frameOps) =>
        ticks' - ticks = SettleRetry /\ ticks' >= 20)
  /\ (pc = "chroma_cap" /\ Len(frameOps') > Len(frameOps) =>
        ticks = 0 /\ ticks' = SettleChroma /\ ticks' >= 10)
  /\ (Len(frameOps') = Len(frameOps) + 1 /\ frameOps'[Len(frameOps')] \in Captures =>
        ticks' > 0)

C16_SettleBeforeCapture == [][C16_Step]_vars

C16_Witness ==
  /\ pc = "chroma_restore" /\ ticks = SettleChroma
  /\ frameOps = <<"read", "update", "camera", "depth", "retry", "chroma",
                  "chroma_capture">>

\* the conditions that abort a run before the frame loop
RunWideAborts == {"no_files", "no_view", "all_empty"}

\* C17, safety: a run is fatal only for one of the three run-wide conditions
\* and only before the frame loop; inside the loop only a failed image write
\* ends it; the loop counter moves one frame at a time and Done is reached
\* with every frame of the list passed.
C17_Inv ==
  /\ (pc = "fatal" => abort \in RunWideAborts /\ k = 0 /\ frameOps = <<>>
                      /\ lastWrite = -1)
  /\ (pc = "crashed" => abort = "save_failed")
  /\ pc # "killed"
  /\ (pc = "done" => k = Len(files) /\ abort = ""
                     /\ (k > 0 => lastIdx = files[k]))

C17_Step == pc \in LoopPcs /\ pc' \in RunningPcs /\ k' # k => k' = k + 1 /\ lastIdx' = files[k']

\* C17: with every statement eventually executed, a run ends, and a run that
\* has entered the frame loop reaches Done unless an image write fails.
C17_OnlyRunWideFatal ==
  /\ []C17_Inv
  /\ [][C17_Step]_vars
  /\ <>(pc \in {"done", "fatal", "crashed"})
  /\ (pc \in LoopPcs ~> (pc = "done" \/ abort = "save_failed"))

C17_Witness ==
  /\ pc = "done" /\ k = 2 /\ Len(files) = 2
  /\ faults = 1 /\ emptyLog = <<>> /\ written = {0}
  /\ "chroma_raise" \in Range(frameOps)

\* the index the resume file holds for a run that reads it (-1: none)
Persisted ==
  LET r == _read_resume(resumeFile)
  IN  IF r.some /\ r.val >= 0 THEN r.val ELSE -1

Logged(i) == \E j \in 1 .. Len(emptyLog) : emptyLog[j].file = i

C18_Inv ==
  /\ LET p == Persisted
     IN  /\ \A i \in Ids(nFiles) :
              i < p => outExists[i] \/ cloudEmpty[i] \/ Logged(i) \/ i \in unlogged
         /\ p <= nFiles
  /\ (pc \in RunningPcs /\ cfg.use_resume /\ resumeAtStart.exists /\ resumeAtStart.readable
        /\ ParseInt(resumeAtStart.text).some /\ ParseInt(resumeAtStart.text).val >= 0 =>
          start = ParseInt(resumeAtStart.text).val)
  /\ \A i \in written : ~outAtStart[i]

C18_Step == \A i \in Ids(nFiles) : outExists[i] => writeCount'[i] = writeCount[i] /\ outExists'[i]

LoggedThisRun(i) ==
  \E j \in 1 .. Len(emptyLog) : j > Len(logAtStart) /\ emptyLog[j].file = i

Ends(ops, tail) ==
  Len(ops) >= Len(tail) /\ SubSeq(ops, Len(ops) - Len(tail) + 1, Len(ops)) = tail

\* the four ways an iteration ends, read off its operations
OutcomeWritten(ops) == Ends(ops, <<"save", "resume">>)
OutcomeExists(ops) == ops = <<"resume">>
OutcomeEmptyCloud(ops) == ops = <<"read", "resume">>
OutcomeLoggedEmpty(ops) == Ends(ops, <<"empty", "resume">>)

OutcomeCount(ops) ==
  Cardinality({o \in {"written", "exists", "empty_cloud", "logged_empty"} :
                 \/ o = "written" /\ OutcomeWritten(ops)
                 \/ o = "exists" /\ OutcomeExists(ops)
                 \/ o = "empty_cloud" /\ OutcomeEmptyCloud(ops)
                 \/ o = "logged_empty" /\ OutcomeLoggedEmpty(ops)})

\* C19, in every state: a finished iteration has exactly one of the four
\* outcomes; the image outcome is the one of the frames this run has
\* written, the other three leave no image; the mask at the save has a
\* non-zero pixel; no frame is both written and logged by the same run.
C19_Inv ==
  /\ (pc \in {"loop", "done"} /\ k > 0 =>
        /\ OutcomeCount(frameOps) = 1
        /\ (OutcomeWritten(frameOps) <=> lastIdx \in written)
        /\ (OutcomeWritten(frameOps) => ~LoggedThisRun(lastIdx) /\ "empty" \notin Range(frameOps))
        /\ (OutcomeExists(frameOps) <=> existed)
        /\ (OutcomeEmptyCloud(frameOps) <=> ~existed /\ cloudEmpty[lastIdx])
        /\ (OutcomeLoggedEmpty(frameOps) =>
              /\ "save" \notin Range(frameOps)
              /\ LoggedThisRun(lastIdx) \/ lastIdx \in unlogged))
  /\ (pc \in {"save", "resume_w"} => MaskMax(alpha) = 255)
  /\ \A i \in written : ~LoggedThisRun(i) /\ ~cloudEmpty[i] /\ ~outAtStart[i]
  /\ \A i \in Ids(nFiles) : LoggedThisRun(i) => i \notin written /\ ~cloudEmpty[i]

\* C19, in every step: an image is written only at the save, from a mask
\* with a non-zero pixel, and a log line is appended only for a zero mask.
C19_Step ==
  /\ (writeCount' # writeCount \/ written' \ written # {} =>
        pc = "save" /\ MaskMax(alpha) = 255 /\ written' = written \cup {files[k + 1]})
  /\ (emptyLog' # emptyLog => pc = "check" /\ MaskMax(alpha) = 0 /\ written' = written)

C19_OneOutcome == []C19_Inv /\ [][C19_Step]_vars

C19_Witness ==
  /\ pc = "done" /\ nFiles = 2 /\ k = 2
  /\ logAtStart = <<[idx |-> 0, file |-> 0]>>
  /\ emptyLog = <<[idx |-> 0, file |-> 0], [idx |-> 1, file |-> 1]>>
  /\ written = {0}

\* the index the resume file held when the run started (-1: none)
PersistedAtStart ==
  LET r == _read_resume(resumeAtStart)
  IN  IF r.some /\ r.val >= 0 THEN r.val ELSE -1

\* C20: with resume enabled and a persisted index at or past the number of
\* input files, the list after the offset is empty and the run (its camera
\* descriptor present) goes to the 'all empty' abort without entering the
\* frame loop; no image, no log line, the resume file as it was.
C20_ResumePastEnd ==
  (cfg.use_resume /\ nFiles > 0 /\ PersistedAtStart >= nFiles
     /\ pc \notin {"main", "load_view", "resume"} /\ abort # "no_view") =>
    /\ start = PersistedAtStart
    /\ files = <<>>
    /\ pc \in {"window", "seed", "fatal"}
    /\ (pc = "fatal" => abort = "all_empty")
    /\ seedReads = {} /\ written = {} /\ lastWrite = -1
    /\ outExists = outAtStart /\ emptyLog = logAtStart
    /\ resumeFile = resumeAtStart
    /\ ~pcd_draw.attached

C20_Witness ==
  /\ pc = "fatal" /\ abort = "all_empty"
  /\ cfg.use_resume /\ nFiles = 2 /\ start = 2
  /\ resumeFile.text = <<"2">>
  /\ ~cloudEmpty[0] /\ ~cloudEmpty[1] /\ ~outExists[0]

====
